---------------------------- MODULE Spec2Model ----------------------------
(***************************************************************************)
(* A model of app.py, the pitch-deck builder: the quota allocator          *)
(* (target_counts), the two text wrappers (wrap_chars, wrap_by_wordcount), *)
(* the vertical placement of text blocks and images (add_left_bullets_     *)
(* vert_center, add_center_paragraph, build_ppt) and the "Build Deck"      *)
(* handler that filters the form rows, allocates the quotas and selects    *)
(* the bullets.                                                            *)
(*                                                                         *)
(* Numbers.  The program computes with binary floating point.  The model   *)
(* computes with exact integers: a ratio is a numerator over a             *)
(* denominator, a length is a whole number of half EMUs (1 inch = 914400   *)
(* EMU), so that every product, halving and 20% share the program takes    *)
(* of the modelled inputs is an integer.                                   *)
(***************************************************************************)
EXTENDS Integers, Sequences, FiniteSets, TLC

VARIABLES
    alloc,   \* the last call of target_counts: its arguments and its result
    wrap,    \* the last call of a text wrapper: its arguments and its result
    place,   \* the last call of a placement helper: its arguments and result
    form,    \* the data editors' rows, the text areas and the image assets
    deck     \* what the last "Build Deck" click computed

vars == <<alloc, wrap, place, form, deck>>

(***************************************************************************)
(* Generic helpers                                                         *)
(***************************************************************************)
Max(a, b) == IF a >= b THEN a ELSE b

Min(a, b) == IF a <= b THEN a ELSE b

RECURSIVE SumOver(_, _)
\* sum(d.values()) of a mapping d over the key set S
SumOver(f, S) ==
    IF S = {} THEN 0
    ELSE LET k == CHOOSE x \in S : TRUE
         IN  f[k] + SumOver(f, S \ {k})

\* Python's lst[:n] for n >= 0
Take(s, n) == SubSeq(s, 1, Min(n, Len(s)))

\* Python's lst[n:] for n >= 0
Drop(s, n) == SubSeq(s, Min(n, Len(s)) + 1, Len(s))

(***************************************************************************)
(* Categories and the WHAC weights                                         *)
(***************************************************************************)
Cats == {"WHAT", "HOW", "SURE", "CYDI"}

\* the order in which the handler walks the categories
CatOrder == <<"WHAT", "HOW", "SURE", "CYDI">>

\* Python compares the keys as strings: "CYDI" < "HOW" < "SURE" < "WHAT"
KeyRank == [c \in Cats |->
              CASE c = "CYDI" -> 1 [] c = "HOW" -> 2 [] c = "SURE" -> 3 [] c = "WHAT" -> 4]

\* {"WHAT": 0.50, "HOW": 0.27, "SURE": 0.15, "CYDI": 0.08}, in hundredths
WHAC_RATIOS ==
    [num |-> [c \in Cats |->
                CASE c = "WHAT" -> 50 [] c = "HOW" -> 27 [] c = "SURE" -> 15 [] c = "CYDI" -> 8],
     den |-> 100]

(***************************************************************************)
(* target_counts(total, ratios): largest-remainder allocation.             *)
(* ratios[k] is ratios.num[k] / ratios.den.                                *)
(***************************************************************************)
\* raw[k] - floors[k], as a numerator over ratios.den
FracNum(total, ratios, k) == (total * ratios.num[k]) % ratios.den

\* floors = {k: int(math.floor(total * v))}
Floors(total, ratios) ==
    [k \in Cats |-> (total * ratios.num[k]) \div ratios.den]

\* the comparison of an ascending sort: reverse=True forgotten
PairLess(total, ratios, a, b) ==
    \/ FracNum(total, ratios, a) < FracNum(total, ratios, b)
    \/ /\ FracNum(total, ratios, a) = FracNum(total, ratios, b)
       /\ KeyRank[a] < KeyRank[b]

\* (fa, a) > (fb, b) as Python tuples
PairGreater(total, ratios, a, b) ==
    \/ FracNum(total, ratios, a) > FracNum(total, ratios, b)
    \/ /\ FracNum(total, ratios, a) = FracNum(total, ratios, b)
       /\ KeyRank[a] > KeyRank[b]

RECURSIVE SortedFracs(_, _, _)
\* sorted([(raw[k] - floors[k], k) for k in ratios], reverse=True), the keys only
SortedFracs(total, ratios, S) ==
    IF S = {} THEN <<>>
    ELSE LET top == CHOOSE a \in S :
                        \A b \in S \ {a} : PairGreater(total, ratios, a, b)
         IN  <<top>> \o SortedFracs(total, ratios, S \ {top})

RECURSIVE DistributeFirst(_, _, _, _)
\* a faulty distribution: every extra unit goes to the largest fraction
DistributeFirst(floors, fracs, i, remainder) ==
    IF i >= remainder THEN floors
    ELSE DistributeFirst([floors EXCEPT ![fracs[1]] = @ + 1], fracs, i + 1, remainder)

RECURSIVE Distribute(_, _, _, _)
\* for i in range(remainder): floors[fracs[i % len(fracs)][1]] += 1
Distribute(floors, fracs, i, remainder) ==
    IF i >= remainder THEN floors
    ELSE Distribute([floors EXCEPT ![fracs[(i % Len(fracs)) + 1]] = @ + 1],
                    fracs, i + 1, remainder)

target_counts(total, ratios) ==
    LET floors    == Floors(total, ratios)
        remainder == total - SumOver(floors, Cats)
        fracs     == SortedFracs(total, ratios, Cats)
    IN  Distribute(floors, fracs, 0, remainder)

(***************************************************************************)
(* Bounds of the allocator's inputs                                        *)
(***************************************************************************)
MaxTotal == 12

MaxDen == 4

\* every mapping of the four categories to k/d, d <= MaxDen, summing to 1,
\* and the program's own weights
RatioMappings ==
    {WHAC_RATIOS} \cup
    UNION {{[num |-> n, den |-> d] :
               n \in {m \in [Cats -> 0..d] : SumOver(m, Cats) = d}} : d \in 1..MaxDen}

AllocIdle == [done |-> FALSE, total |-> 0, ratios |-> WHAC_RATIOS,
              targets |-> [c \in Cats |-> 0]]

WrapIdle == [op |-> "none"]

PlaceIdle == [op |-> "none"]

FormIdle == [rows |-> <<>>]

DeckIdle == [built |-> FALSE]

InitTargets ==
    /\ alloc \in {[done |-> FALSE, total |-> t, ratios |-> r, targets |-> [c \in Cats |-> 0]] :
                     t \in 0..MaxTotal, r \in RatioMappings}
    /\ wrap = WrapIdle
    /\ place = PlaceIdle
    /\ form = FormIdle
    /\ deck = DeckIdle

TargetCounts ==
    /\ ~alloc.done
    /\ alloc' = [alloc EXCEPT !.done = TRUE,
                              !.targets = target_counts(alloc.total, alloc.ratios)]
    /\ UNCHANGED <<wrap, place, form, deck>>

NextTargets == TargetCounts

SpecTargets == InitTargets /\ [][NextTargets]_vars

(***************************************************************************)
(* C1: target_counts(T, ratios), for T >= 0 and ratios summing to 1,       *)
(* returns non-negative integers that sum exactly to T, each being         *)
(* floor(T*ratio[c]) or floor(T*ratio[c]) + 1.                             *)
(***************************************************************************)
C1_TargetCountsExact ==
    alloc.done =>
        /\ \A c \in Cats : alloc.targets[c] \in Nat
        /\ SumOver(alloc.targets, Cats) = alloc.total
        /\ \A c \in Cats :
              LET fl == (alloc.total * alloc.ratios.num[c]) \div alloc.ratios.den
              IN  alloc.targets[c] \in {fl, fl + 1}

\* an allocation of the program's weights with three extra units handed out
C1_Witness ==
    /\ alloc.done
    /\ alloc.ratios = WHAC_RATIOS
    /\ alloc.total = 11
    /\ alloc.targets["WHAT"] = 5
    /\ alloc.targets["HOW"] = 3
    /\ alloc.targets["SURE"] = 2
    /\ alloc.targets["CYDI"] = 1

(***************************************************************************)
(* Text.  A text is a sequence of one-character strings.                   *)
(***************************************************************************)
\* what str.split() and str.strip() treat as white space
Whitespace == {" ", "\t", "\n"}

RECURSIVE SplitFrom(_, _)
\* the words of text from position from on: skip the white space, take a run
SplitFrom(text, from) ==
    LET n == Len(text)
    IN  IF \A i \in from..n : text[i] \in Whitespace THEN <<>>
        ELSE LET s == CHOOSE i \in from..n :
                          /\ text[i] \notin Whitespace
                          /\ \A k \in from..(i - 1) : text[k] \in Whitespace
                 e == CHOOSE j \in s..n :
                          /\ j = n \/ text[j + 1] \in Whitespace
                          /\ \A k \in s..j : text[k] \notin Whitespace
             IN  <<SubSeq(text, s, e)>> \o SplitFrom(text, e + 1)

\* text.split(): the maximal runs of non-white-space characters, in order
Split(text) == SplitFrom(text, 1)

RECURSIVE Join(_, _)
\* sep.join(parts)
Join(parts, sep) ==
    IF parts = <<>> THEN <<>>
    ELSE IF Len(parts) = 1 THEN parts[1]
    ELSE parts[1] \o sep \o Join(Tail(parts), sep)

RECURSIVE StripLeft(_)
StripLeft(text) ==
    IF text # <<>> /\ Head(text) \in Whitespace THEN StripLeft(Tail(text)) ELSE text

RECURSIVE StripRight(_)
StripRight(text) ==
    IF text # <<>> /\ text[Len(text)] \in Whitespace
    THEN StripRight(SubSeq(text, 1, Len(text) - 1))
    ELSE text

\* text.strip()
Strip(text) == StripRight(StripLeft(text))

(***************************************************************************)
(* wrap_chars(text, max_chars)                                             *)
(***************************************************************************)
\* a faulty fit test: the joining blank is not counted
FitsNoBlank(cur, w, max_chars) == Len(cur) + Len(w) <= max_chars

\* len(cur) + 1 + len(w) <= max_chars
Fits(cur, w, max_chars) == Len(cur) + 1 + Len(w) <= max_chars

RECURSIVE WrapCharsLoop(_, _, _, _, _)
\* for w in words[1:]: ...; lines.append(cur)
WrapCharsLoop(words, i, cur, lines, max_chars) ==
    IF i > Len(words) THEN Append(lines, cur)
    ELSE IF Fits(cur, words[i], max_chars)
         THEN WrapCharsLoop(words, i + 1, cur \o <<" ">> \o words[i], lines, max_chars)
         ELSE WrapCharsLoop(words, i + 1, words[i], Append(lines, cur), max_chars)

wrap_chars(text, max_chars) ==
    LET words == Split(text)
    IN  IF words = <<>> THEN << <<>> >>
        ELSE WrapCharsLoop(words, 2, words[1], <<>>, max_chars)

(***************************************************************************)
(* wrap_by_wordcount(text, max_words)                                      *)
(***************************************************************************)
RECURSIVE WrapWordsLoop(_, _, _, _, _)
\* for w in words: ...; if bucket: lines.append(" ".join(bucket))
WrapWordsLoop(words, i, bucket, lines, max_words) ==
    IF i > Len(words)
    THEN IF bucket # <<>> THEN Append(lines, Join(bucket, <<" ">>)) ELSE lines
    ELSE IF Len(bucket) < max_words
         THEN WrapWordsLoop(words, i + 1, Append(bucket, words[i]), lines, max_words)
         ELSE WrapWordsLoop(words, i + 1, <<words[i]>>,
                            Append(lines, Join(bucket, <<" ">>)), max_words)

wrap_by_wordcount(text, max_words) ==
    LET words == Split(text)
    IN  IF words = <<>> THEN << <<>> >>
        ELSE WrapWordsLoop(words, 1, <<>>, <<>>, max_words)

(***************************************************************************)
(* Bounds of the wrappers' inputs                                          *)
(***************************************************************************)
MaxTextLen == 8

MaxLimit == 3

Alphabet == {"a", " ", "\n"}

RECURSIVE TextsOfLen(_)
TextsOfLen(n) ==
    IF n = 0 THEN {<<>>}
    ELSE {Append(t, ch) : t \in TextsOfLen(n - 1), ch \in Alphabet}

Texts == UNION {TextsOfLen(n) : n \in 0..MaxTextLen}

InitWrap ==
    /\ wrap \in {[op |-> "none", text |-> t, limit |-> n, lines |-> <<>>] :
                    t \in Texts, n \in 0..MaxLimit}
    /\ alloc = AllocIdle
    /\ place = PlaceIdle
    /\ form = FormIdle
    /\ deck = DeckIdle

WrapChars ==
    /\ wrap.op = "none"
    /\ wrap' = [wrap EXCEPT !.op = "wrap_chars",
                            !.lines = wrap_chars(wrap.text, wrap.limit)]
    /\ UNCHANGED <<alloc, place, form, deck>>

WrapByWordcount ==
    /\ wrap.op = "none"
    /\ wrap' = [wrap EXCEPT !.op = "wrap_by_wordcount",
                            !.lines = wrap_by_wordcount(wrap.text, wrap.limit)]
    /\ UNCHANGED <<alloc, place, form, deck>>

NextWrap == WrapChars \/ WrapByWordcount

SpecWrap == InitWrap /\ [][NextWrap]_vars

(***************************************************************************)
(* C4: no line of wrap_chars(text, maxChars) is longer than maxChars       *)
(* unless the line is a single word that alone exceeds maxChars, and the   *)
(* lines, joined and split again on white space, give the words of text.   *)
(***************************************************************************)
C4_WrapCharsBudgetAndRoundTrip ==
    wrap.op = "wrap_chars" =>
        /\ \A i \in 1..Len(wrap.lines) :
              \/ Len(wrap.lines[i]) <= wrap.limit
              \/ Len(Split(wrap.lines[i])) = 1 /\ Split(wrap.lines[i])[1] = wrap.lines[i]
        /\ Split(Join(wrap.lines, <<"\n">>)) = Split(wrap.text)

\* an oversized word alone on its line, after a line of two words that fits
C4_Witness ==
    /\ wrap.op = "wrap_chars"
    /\ Len(wrap.lines) = 2
    /\ Len(Split(wrap.lines[1])) = 2
    /\ Len(wrap.lines[1]) <= wrap.limit
    /\ Len(wrap.lines[2]) > wrap.limit

(***************************************************************************)
(* C5: every line of wrap_by_wordcount(text, maxWords) holds at most       *)
(* maxWords words, whatever maxWords is; the words keep their order        *)
(* across the lines; empty or blank text yields exactly one empty line.    *)
(***************************************************************************)
C5_WrapWordsHardCap ==
    wrap.op = "wrap_by_wordcount" =>
        /\ \A i \in 1..Len(wrap.lines) : Len(Split(wrap.lines[i])) <= wrap.limit
        /\ Split(Join(wrap.lines, <<"\n">>)) = Split(wrap.text)
        /\ Split(wrap.text) = <<>> => wrap.lines = << <<>> >>

\* the same statement for the limits the cap can be met with, maxWords >= 1
C5_WrapWordsCapPositive ==
    wrap.op = "wrap_by_wordcount" /\ wrap.limit >= 1 =>
        /\ \A i \in 1..Len(wrap.lines) : Len(Split(wrap.lines[i])) <= wrap.limit
        /\ Split(Join(wrap.lines, <<"\n">>)) = Split(wrap.text)
        /\ Split(wrap.text) = <<>> => wrap.lines = << <<>> >>

(***************************************************************************)
(* Lengths.  A length of x inches is the integer x * UNITS_PER_INCH, a     *)
(* number of half EMUs.                                                    *)
(***************************************************************************)
EMU_PER_INCH == 914400

UNITS_PER_INCH == 2 * EMU_PER_INCH

\* n/d inches
In(n, d) == (n * UNITS_PER_INCH) \div d

\* pptx.util.Inches(x): int(x * 914400), the whole EMUs, truncated towards 0
Inches(x) == IF x >= 0 THEN x \div 2 ELSE -((-x) \div 2)

\* a whole number of EMUs (pic.height, pic.top), as a length
FromEmu(e) == 2 * e

\* line_height_in = (font_pt * 1.35) / 72.0
LineHeightIn(font_pt) == font_pt * 135 * (UNITS_PER_INCH \div 7200)

\* uplift_ratio = 0.20, in hundredths
UPLIFT_RATIO == 20

\* a faulty clamp: the lifted block is not held at the region's top
NoClampTop(top_in, y) == y

\* start_top = max(top_in, base_top - shift_up)
ClampTop(top_in, y) == Max(top_in, y)

\* the em dash the helpers show for missing text: one character, not white space
DASH == <<"-">>

\* [l for l in xs if (l or "").strip()]
NonBlank(xs) == SelectSeq(xs, LAMBDA l : Strip(l) # <<>>)

RECURSIVE SumLen(_)
\* sum(len(w) for w in wrapped_items)
SumLen(items) ==
    IF items = <<>> THEN 0 ELSE Len(Head(items)) + SumLen(Tail(items))

(***************************************************************************)
(* add_left_bullets_vert_center: the text box of a bullet block            *)
(***************************************************************************)
add_left_bullets_vert_center(lines, font_pt, top_in, bottom_in, uplift_ratio, wrap_chars_limit) ==
    LET given          == IF lines = <<>> THEN <<DASH>> ELSE lines
        kept           == NonBlank(given)
        raw            == IF kept = <<>> THEN <<DASH>> ELSE kept
        wrapped_items  == [i \in 1..Len(raw) |-> wrap_chars(raw[i], wrap_chars_limit)]
        total_lines    == SumLen(wrapped_items)
        line_height_in == LineHeightIn(font_pt)
        total_h_in     == Max(1, total_lines) * line_height_in
        avail_h        == bottom_in - top_in
        base_top       == top_in + Max(0, (avail_h - total_h_in) \div 2)
        shift_up       == (uplift_ratio * avail_h) \div 100
        start_top      == ClampTop(top_in, base_top - shift_up)
    IN  [wrapped    |-> wrapped_items,
         total_h_in |-> total_h_in,
         start_top  |-> start_top,
         top        |-> Inches(start_top),
         height     |-> Inches(total_h_in + In(1, 10))]

(***************************************************************************)
(* add_center_paragraph: the text box of a centred paragraph               *)
(***************************************************************************)
add_center_paragraph(text, font_pt, top_in, bottom_in, uplift_ratio, wrap_chars_limit) ==
    LET chunks         == wrap_chars(IF text = <<>> THEN DASH ELSE text, wrap_chars_limit)
        line_height_in == LineHeightIn(font_pt)
        total_h_in     == Max(1, Len(chunks)) * line_height_in
        avail_h        == bottom_in - top_in
        base_top       == top_in + Max(0, (avail_h - total_h_in) \div 2)
        shift_up       == (uplift_ratio * avail_h) \div 100
        start_top      == ClampTop(top_in, base_top - shift_up)
    IN  [wrapped    |-> <<chunks>>,
         total_h_in |-> total_h_in,
         start_top  |-> start_top,
         top        |-> Inches(start_top),
         height     |-> Inches(total_h_in + In(2, 10))]

(***************************************************************************)
(* Bounds of the placement helpers' inputs                                 *)
(***************************************************************************)
MaxBullets == 2

MaxHalfInches == 3

\* the font sizes the program uses
FontSizes == {26, 28, 30, 32}

PlaceTexts == {<<>>, <<" ">>, <<"a">>, <<"a", " ", "b">>}

RECURSIVE SeqsUpTo(_, _)
\* the sequences over S of length at most n
SeqsUpTo(S, n) ==
    IF n = 0 THEN {<<>>}
    ELSE LET shorter == SeqsUpTo(S, n - 1)
         IN  shorter \cup {Append(q, x) : q \in {r \in shorter : Len(r) = n - 1}, x \in S}

\* regions with top < bottom, on a grid of half inches
Regions ==
    {r \in [top : {In(k, 2) : k \in 0..MaxHalfInches},
            bottom : {In(k, 2) : k \in 0..MaxHalfInches}] : r.top < r.bottom}

InitPlace ==
    /\ place = PlaceIdle
    /\ alloc = AllocIdle
    /\ wrap = WrapIdle
    /\ form = FormIdle
    /\ deck = DeckIdle

AddLeftBulletsVertCenter ==
    /\ place.op = "none"
    /\ \E lines \in SeqsUpTo(PlaceTexts, MaxBullets), f \in FontSizes,
          r \in Regions, limit \in 1..MaxLimit :
          place' = [op |-> "add_left_bullets_vert_center", content |-> lines,
                    font_pt |-> f, top_in |-> r.top, bottom_in |-> r.bottom,
                    limit |-> limit,
                    box |-> add_left_bullets_vert_center(lines, f, r.top, r.bottom,
                                                         UPLIFT_RATIO, limit)]
    /\ UNCHANGED <<alloc, wrap, form, deck>>

AddCenterParagraph ==
    /\ place.op = "none"
    /\ \E text \in PlaceTexts, f \in FontSizes, r \in Regions, limit \in 1..MaxLimit :
          place' = [op |-> "add_center_paragraph", content |-> <<text>>,
                    font_pt |-> f, top_in |-> r.top, bottom_in |-> r.bottom,
                    limit |-> limit,
                    box |-> add_center_paragraph(text, f, r.top, r.bottom,
                                                 UPLIFT_RATIO, limit)]
    /\ UNCHANGED <<alloc, wrap, form, deck>>

NextPlace == AddLeftBulletsVertCenter \/ AddCenterParagraph

SpecPlace == InitPlace /\ [][NextPlace]_vars

(***************************************************************************)
(* C6: in add_left_bullets_vert_center and add_center_paragraph, for every *)
(* region with top < bottom, uplift 0.20 and every content height,         *)
(* start_top >= top_in; and start_top = top_in whenever the content is     *)
(* taller than the region.                                                 *)
(***************************************************************************)
C6_StartTopClamped ==
    place.op # "none" =>
        /\ place.box.start_top >= place.top_in
        /\ place.box.total_h_in > place.bottom_in - place.top_in
              => place.box.start_top = place.top_in

\* a block taller than its region, held at the region's top
C6_WitnessTall ==
    /\ place.op = "add_left_bullets_vert_center"
    /\ place.box.total_h_in > place.bottom_in - place.top_in
    /\ place.box.start_top = place.top_in
    /\ place.top_in > 0

(***************************************************************************)
(* The form: five data editors, two text areas, two image assets           *)
(***************************************************************************)
Editors == Cats \cup {"DOWNSIDES"}

\* the hook text area's default
DEFAULT_HOOK ==
    <<"F", "r", "o", "m", " ", "n", "a", "p", " ", "t", "o", " ", "v", "e", "t", " ", "i", "n",
      " ", "o", "n", "e", " ", "t", "a", "p", "!">>

\* the story text area's default
DEFAULT_BUT_FUNNEL ==
    <<"L", "a", "s", "t", " ", "m", "o", "n", "t", "h", ",", " ", "a", " ", "c", "a", "t", " ",
      "n", "a", "m", "e", "d", " ", "M", "i", "t", "t", "e", "n", "s", " ", "d", "i", "s", "a",
      "p", "p", "e", "a", "r", "e", "d", " ", "i", "n", " ", "M", "i", "l", "w", "a", "u", "k",
      "e", "e", " ", "a", "n", "d", " ", "t", "u", "r", "n", "e", "d", " ", "u", "p", " ", "i",
      "n", " ", "M", "a", "d", "i", "s", "o", "n", ".", "\n", "H", "e", "r", " ", "o", "w", "n",
      "e", "r", " ", "o", "p", "e", "n", "e", "d", " ", "t", "h", "e", " ", "a", "p", "p", ",",
      " ", "h", "i", "t", " ", "\"", "E", "x", "p", "r", "e", "s", "s", ",", "\"", " ", "a",
      "n", "d", " ", "U", "b", "e", "r", " ", "f", "o", "r", " ", "C", "a", "t", "s", " ", "b",
      "r", "o", "u", "g", "h", "t", " ", "h", "e", "r", " ", "h", "o", "m", "e", " ", "b", "e",
      "f", "o", "r", "e", " ", "d", "i", "n", "n", "e", "r", ".", "\n", "I", "n", " ", "E", "u",
      "r", "o", "p", "e", ",", " ", "t", "h", "e", "r", "e", " ", "a", "r", "e", " ", "a", "b",
      "o", "u", "t", " ", "1", ",", "0", "0", "0", " ", "b", "i", "o", "d", "i", "g", "e", "s",
      "t", "e", "r", "s", ",", " ", "l", "a", "r", "g", "e", "l", "y", " ", "b", "e", "c", "a",
      "u", "s", "e", " ", "t", "h", "e", "y", " ", "r", "e", "c", "e", "i", "v", "e", " ", "g",
      "o", "v", "e", "r", "n", "m", "e", "n", "t", " ", "f", "u", "n", "d", "i", "n", "g", ".">>

\* team_text
TEAM_TEXT ==
    <<"D", "i", "v", "e", "r", "s", "e", ",", " ", "r", "e", "s", "o", "u", "r", "c", "e", "f",
      "u", "l", ",", " ", "m", "o", "t", "i", "v", "a", "t", "e", "d", " ", "t", "e", "a", "m",
      ",", " ", "b", "a", "t", "t", "l", "e", "-", "h", "a", "r", "d", "e", "n", "e", "d", " ",
      "b", "y", " ", "3", "1", " ", "y", "e", "a", "r", "s", " ", "o", "f", " ", "c", "o", "m",
      "b", "i", "n", "e", "d", " ", "e", "n", "t", "r", "e", "p", "r", "e", "n", "e", "u", "r",
      "i", "a", "l", " ", "e", "x", "p", "e", "r", "i", "e", "n", "c", "e", ".">>

\* the downsides editor's initial row
DEFAULT_DOWNSIDE ==
    <<"M", "a", "i", "n", "t", "e", "n", "a", "n", "c", "e", " ", "e", "x", "p", "e", "n", "s",
      "e", "s", " ", "s", "p", "i", "k", "e", " ", "d", "u", "r", "i", "n", "g", " ", "s", "h",
      "e", "d", "d", "i", "n", "g", " ", "s", "e", "a", "s", "o", "n", ".">>

\* the downside shown when the editor has none
FALLBACK_DOWNSIDE ==
    <<"T", "h", "e", " ", "c", "o", "s", "t", " ", "o", "f", " ", "p", "l", "a", "s", "m", "a",
      "-", "b", "a", "s", "e", "d", " ", "f", "e", "r", "t", "i", "l", "i", "z", "e", "r", "s",
      " ", "c", "o", "m", "p", "a", "r", "e", "d", " ", "t", "o", " ", "s", "y", "n", "t", "h",
      "e", "t", "i", "c", " ", "f", "e", "r", "t", "i", "l", "i", "z", "e", "r", "s", ".">>

\* prio = 5 if High else 3 if Med else 0, read the other way round
RowPriorityMedFirst(row) == IF row.Med THEN 3 ELSE IF row.High THEN 5 ELSE 0

\* prio = 5 if row.get("High (5)") else 3 if row.get("Med (3)") else 0
RowPriority(row) == IF row.High THEN 5 ELSE IF row.Med THEN 3 ELSE 0

\* the items make_editor returns for an editor's rows: blank bullets are skipped
make_editor(rows, include_link) ==
    LET kept == SelectSeq(rows, LAMBDA r : Strip(r.Bullet) # <<>>)
    IN  [i \in 1..Len(kept) |->
            [text     |-> Strip(kept[i].Bullet),
             priority |-> RowPriority(kept[i]),
             link     |-> IF include_link THEN Strip(kept[i].Link) ELSE <<>>]]

(***************************************************************************)
(* The "Build Deck" handler, step by step                                  *)
(***************************************************************************)
\* 1) the bullets of one category, each with its index among the items
Bullets(items, cat, linkflag) ==
    [i \in 1..Len(items) |->
        [text     |-> Strip(items[i].text),
         priority |-> items[i].priority,
         link     |-> IF linkflag THEN Strip(items[i].link) ELSE <<>>,
         category |-> cat,
         idx      |-> i - 1]]

all_bullets(rows) ==
    Bullets(make_editor(rows["WHAT"], FALSE), "WHAT", FALSE)
    \o Bullets(make_editor(rows["HOW"], FALSE), "HOW", FALSE)
    \o Bullets(make_editor(rows["SURE"], TRUE), "SURE", TRUE)
    \o Bullets(make_editor(rows["CYDI"], FALSE), "CYDI", FALSE)

\* 2) pool = [x for x in all_bullets if x["text"] and x["priority"] > 0]
Pool(bullets) == SelectSeq(bullets, LAMBDA x : x.text # <<>> /\ x.priority > 0)

\* a faulty rounding: halves go up
RoundHalfUp(num, den) ==
    LET q == num \div den
        r == num % den
    IN  IF 2 * r < den THEN q ELSE q + 1

\* Python's round(num / den) for num >= 0: halves go to the even neighbour
RoundHalfEven(num, den) ==
    LET q == num \div den
        r == num % den
    IN  IF 2 * r < den THEN q
        ELSE IF 2 * r > den THEN q + 1
        ELSE IF q % 2 = 0 THEN q ELSE q + 1

\* keep_fraction = 0.50, in hundredths
KEEP_FRACTION == 50

\* the kept total without its floor of 1
KeptTotalNoFloor(n) == RoundHalfEven(n * KEEP_FRACTION, 100)

\* 3) kept_total = max(1, int(round(len(pool) * keep_fraction)))
KeptTotal(n) == Max(1, RoundHalfEven(n * KEEP_FRACTION, 100))

\* a faulty tier test: nothing counts as high
TierStrict(b) == IF b.priority > 5 THEN "H" ELSE "M"

\* tier = "H" if b["priority"] >= 5 else "M"
Tier(b) == IF b.priority >= 5 THEN "H" ELSE "M"

RECURSIVE InsertByIdx(_, _)
\* x goes behind every element whose idx is not larger: the sort is stable
InsertByIdx(sorted, x) ==
    IF sorted = <<>> THEN <<x>>
    ELSE IF sorted[Len(sorted)].idx <= x.idx THEN Append(sorted, x)
    ELSE Append(InsertByIdx(SubSeq(sorted, 1, Len(sorted) - 1), x), sorted[Len(sorted)])

RECURSIVE SortByIdx(_)
\* lst.sort(key=lambda x: x["idx"])
SortByIdx(lst) ==
    IF lst = <<>> THEN <<>>
    ELSE InsertByIdx(SortByIdx(SubSeq(lst, 1, Len(lst) - 1)), lst[Len(lst)])

\* 5) by_cat[c][t], sorted by idx
ByCat(pool, c, t) ==
    SortByIdx(SelectSeq(pool, LAMBDA b : b.category = c /\ Tier(b) = t))

\* a faulty fill: the mediums are cut at the cap, not at what is still needed
FillCapWholeCap(highs_all, meds_all, cap) ==
    LET highs == Take(highs_all, cap)
    IN  IF Len(highs) < cap THEN highs \o Take(meds_all, cap) ELSE highs

\* take = by_cat[c]["H"][:cap], then by_cat[c]["M"][:cap - len(take)]
FillCap(highs_all, meds_all, cap) ==
    LET highs == Take(highs_all, cap)
    IN  IF Len(highs) < cap
        THEN LET need == cap - Len(highs)
             IN  highs \o Take(meds_all, need)
        ELSE highs

Selected(pool, targets) ==
    [c \in Cats |-> FillCap(ByCat(pool, c, "H"), ByCat(pool, c, "M"), targets[c])]

\* [b[field] for b in lst]
Field(lst, field) == [i \in 1..Len(lst) |-> lst[i][field]]

\* a faulty downsides list: every non-blank text, however many
DownsidesUncapped(items) ==
    LET texts == Field(SelectSeq(items, LAMBDA x : Strip(x.text) # <<>>), "text")
    IN  IF texts = <<>> THEN <<FALLBACK_DOWNSIDE>> ELSE texts

\* downsides: the first three non-blank texts, or the fallback
Downsides(items) ==
    LET texts == Take(Field(SelectSeq(items, LAMBDA x : Strip(x.text) # <<>>), "text"), 3)
    IN  IF texts = <<>> THEN <<FALLBACK_DOWNSIDE>> ELSE texts

RECURSIVE SureLinks(_, _)
\* the links of the selected SURE bullets, each once, in first-seen order
SureLinks(sel, links) ==
    IF sel = <<>> THEN links
    ELSE LET url == Strip(Head(sel).link)
         IN  SureLinks(Tail(sel),
                       IF Head(sel).link # <<>> /\ url # <<>>
                          /\ ~(\E i \in 1..Len(links) : links[i] = url)
                       THEN Append(links, url) ELSE links)

\* payload["slides"]
Slides(selected, downsides_items) ==
    LET what_list == Field(selected["WHAT"], "text")
    IN  [what_top3  |-> Take(what_list, 3),
         what_rest  |-> Drop(what_list, 3),
         how        |-> Field(selected["HOW"], "text"),
         downsides  |-> Downsides(downsides_items),
         sure_texts |-> Field(selected["SURE"], "text"),
         sure_links |-> SureLinks(selected["SURE"], <<>>),
         cydi       |-> Field(selected["CYDI"], "text")]

(***************************************************************************)
(* build_ppt(payload): where each block of the content slides is placed.   *)
(* An image asset is its pixel size [w, h]; only the ratio matters.        *)
(***************************************************************************)
\* the content region of every slide: 2.0 to 6.5 inches from the top
CONTENT_TOP == In(2, 1)

CONTENT_BOTTOM == In(13, 2)

\* slide_size_in(prs)[0] of a new Presentation(): the default slide is 10 inches wide
slide_w_in == In(10, 1)

\* the image _ensure_image writes when the asset file is missing: 1 x 1 pixel
PLACEHOLDER == [w |-> 1, h |-> 1]

\* pic.width and pic.height in EMU after scale = min(max_w / w, max_h / h)
ScaledPic(asset, max_w_in, max_h_in) ==
    IF max_w_in * asset.h <= max_h_in * asset.w
    THEN [width  |-> Inches(max_w_in),
          height |-> (asset.h * max_w_in) \div (2 * asset.w)]
    ELSE [width  |-> (asset.w * max_h_in) \div (2 * asset.h),
          height |-> Inches(max_h_in)]

\* pic.top = int((y_center - (pic.height / EMU_PER_INCH) / 2.0) * EMU_PER_INCH)
PicTop(height_emu) ==
    LET avail_h  == CONTENT_BOTTOM - CONTENT_TOP
        y_center == CONTENT_TOP + avail_h \div 2 - (UPLIFT_RATIO * avail_h) \div 100
    IN  Inches(y_center - height_emu)

\* slide 2: the mission image
MissionImage(asset) ==
    LET img_max_w_in == slide_w_in - In(18, 10)
        img_max_h_in == (9 * (CONTENT_BOTTOM - CONTENT_TOP)) \div 10
        pic          == ScaledPic(asset, img_max_w_in, img_max_h_in)
    IN  [top |-> PicTop(pic.height), content_h |-> FromEmu(pic.height)]

\* slide 5: the team image in the left panel
TeamImage(asset) ==
    LET max_h == CONTENT_BOTTOM - CONTENT_TOP
        pic2  == ScaledPic(asset, In(52, 10), max_h)
    IN  [top |-> PicTop(pic2.height), content_h |-> FromEmu(pic2.height)]

\* slide 5: the team text on the right, at most two words per line
TeamText ==
    LET team_lines == wrap_by_wordcount(TEAM_TEXT, 2)
        avail_h2   == CONTENT_BOTTOM - CONTENT_TOP
        line_h_in  == LineHeightIn(30)
        total_h_in == Max(1, Len(team_lines)) * line_h_in
        base_top   == CONTENT_TOP + Max(0, (avail_h2 - total_h_in) \div 2)
        top_right  == base_top - (UPLIFT_RATIO * avail_h2) \div 100
    IN  [top |-> Inches(top_right), content_h |-> total_h_in]

\* make_bullets_slide(title, lines, size)
BulletsSlide(lines, size) ==
    LET box == add_left_bullets_vert_center(lines, size, CONTENT_TOP, CONTENT_BOTTOM,
                                            UPLIFT_RATIO, 40)
    IN  [top |-> box.top, content_h |-> box.total_h_in]

ParagraphSlide(text, size, limit) ==
    LET box == add_center_paragraph(text, size, CONTENT_TOP, CONTENT_BOTTOM,
                                    UPLIFT_RATIO, limit)
    IN  [top |-> box.top, content_h |-> box.total_h_in]

\* the vertical placements build_ppt makes, slide by slide
build_ppt(payload, assets) ==
    [mission_image |-> MissionImage(assets.mission),
     what_top3     |-> BulletsSlide(payload.slides.what_top3, 32),
     hook          |-> ParagraphSlide(payload.hook, 32, 20),
     team_image    |-> TeamImage(assets.team),
     team_text     |-> TeamText,
     how           |-> BulletsSlide(payload.slides.how, 28),
     downsides     |-> BulletsSlide(payload.slides.downsides, 28),
     sure_texts    |-> BulletsSlide(payload.slides.sure_texts, 26),
     cydi          |-> BulletsSlide(payload.slides.cydi, 28),
     but_funnel    |-> ParagraphSlide(payload.but_funnel, 28, 28)]

(***************************************************************************)
(* The actions of a session: edit the form, click "Build Deck"             *)
(***************************************************************************)
MaxRows == 2

\* a blank bullet and one that strip() shortens
RowTexts == {<<" ">>, <<" ", "a">>}

\* the rows a user adds: every combination of the three check boxes in the four
\* category editors; the downsides editor's check boxes are never read
RowChoices(e) ==
    IF e = "DOWNSIDES"
    THEN [Bullet : RowTexts, High : {FALSE}, Med : {FALSE}, None : {FALSE}, Link : {<<>>}]
    ELSE [Bullet : RowTexts, High : BOOLEAN, Med : BOOLEAN, None : BOOLEAN, Link : {<<>>}]

\* the downsides editor's initial row: {"Bullet": ..., "Med (3)": True}
INITIAL_DOWNSIDE_ROW ==
    [Bullet |-> DEFAULT_DOWNSIDE, High |-> FALSE, Med |-> TRUE, None |-> FALSE, Link |-> <<>>]

\* the seeded rows of every editor are blank and yield no item; they are left out
InitialRows == [e \in Editors |-> IF e = "DOWNSIDES" THEN <<INITIAL_DOWNSIDE_ROW>> ELSE <<>>]

TotalRows(rows) == SumOver([e \in Editors |-> Len(rows[e])], Editors)

Init ==
    /\ form = [rows |-> InitialRows, hook |-> DEFAULT_HOOK, but_funnel |-> DEFAULT_BUT_FUNNEL,
               assets |-> [mission |-> PLACEHOLDER, team |-> PLACEHOLDER]]
    /\ deck = DeckIdle
    /\ alloc = AllocIdle
    /\ wrap = WrapIdle
    /\ place = PlaceIdle

\* the user appends a row to a data editor; the script reruns without a build
AddRow ==
    /\ TotalRows(form.rows) < MaxRows
    /\ \E e \in Editors : \E row \in RowChoices(e) :
          form' = [form EXCEPT !.rows[e] = Append(@, row)]
    /\ deck' = DeckIdle
    /\ UNCHANGED <<alloc, wrap, place>>

\* the user deletes the last row of a data editor
DeleteRow ==
    /\ \E e \in Editors :
          /\ form.rows[e] # <<>>
          /\ form' = [form EXCEPT !.rows[e] = SubSeq(@, 1, Len(@) - 1)]
    /\ deck' = DeckIdle
    /\ UNCHANGED <<alloc, wrap, place>>

\* if st.button("Build Deck"): the whole handler, build_ppt included
BuildDeck ==
    /\ LET bullets    == all_bullets(form.rows)
           pool       == Pool(bullets)
           kept_total == KeptTotal(Len(pool))
           targets    == target_counts(kept_total, WHAC_RATIOS)
           selected   == Selected(pool, targets)
           payload    == [hook       |-> form.hook,
                          but_funnel |-> form.but_funnel,
                          slides     |-> Slides(selected,
                                                make_editor(form.rows["DOWNSIDES"], FALSE))]
       IN  deck' = [built      |-> TRUE,
                    pool       |-> pool,
                    kept_total |-> kept_total,
                    targets    |-> targets,
                    selected   |-> selected,
                    slides     |-> payload.slides,
                    boxes      |-> build_ppt(payload, form.assets)]
    /\ UNCHANGED <<form, alloc, wrap, place>>

Next == AddRow \/ DeleteRow \/ BuildDeck

Spec == Init /\ [][Next]_vars

(***************************************************************************)
(* Forms of well-formed rows, for the selection: every row has a text and  *)
(* exactly one of High and Med.  A category's rows are given by the        *)
(* sequence of their tiers.                                                *)
(***************************************************************************)
MaxWhat == 4

MaxOther == 1

TierRow(t) ==
    [Bullet |-> <<"a">>, High |-> t = "H", Med |-> t = "M", None |-> FALSE, Link |-> <<>>]

TierRows(ts) == [i \in 1..Len(ts) |-> TierRow(ts[i])]

FormOf(what, how, sure, cydi) ==
    [rows |-> [e \in Editors |->
                 CASE e = "WHAT" -> TierRows(what)
                   [] e = "HOW"  -> TierRows(how)
                   [] e = "SURE" -> TierRows(sure)
                   [] e = "CYDI" -> TierRows(cydi)
                   [] OTHER      -> <<INITIAL_DOWNSIDE_ROW>>],
     hook |-> DEFAULT_HOOK, but_funnel |-> DEFAULT_BUT_FUNNEL,
     assets |-> [mission |-> PLACEHOLDER, team |-> PLACEHOLDER]]

SelForms ==
    {FormOf(what, how, sure, cydi) :
        what \in SeqsUpTo({"H", "M"}, MaxWhat),
        how \in SeqsUpTo({"H", "M"}, MaxOther),
        sure \in SeqsUpTo({"H", "M"}, MaxOther),
        cydi \in SeqsUpTo({"H", "M"}, MaxOther)}

\* n rows of one tier
Uniform(t, n) == [i \in 1..n |-> t]

\* the scenario: 10 WHAT rows of which 6 are HIGH and 4 MEDIUM, in any order,
\* 6 HOW, 4 SURE and 2 CYDI rows, each of these categories of one tier
ScenarioForms ==
    {FormOf(what, Uniform(th, 6), Uniform(ts, 4), Uniform(tc, 2)) :
        what \in {w \in [1..10 -> {"H", "M"}] : Cardinality({i \in 1..10 : w[i] = "H"}) = 6},
        th \in {"H", "M"}, ts \in {"H", "M"}, tc \in {"H", "M"}}

InitSel ==
    /\ form \in SelForms \cup ScenarioForms
    /\ deck = DeckIdle
    /\ alloc = AllocIdle
    /\ wrap = WrapIdle
    /\ place = PlaceIdle

NextSel == BuildDeck

SpecSel == InitSel /\ [][NextSel]_vars

(***************************************************************************)
(* Forms for the derived slide lists: SURE rows that carry links, some of  *)
(* them equal, blank or padded, beside enough other rows for a SURE cap of *)
(* 0, 1, 2 or 3; and downsides editors of none to more than three rows.    *)
(***************************************************************************)
MaxSure == 3

MaxDown == 4

\* a link left empty, a blank one, two different ones, one padded with a blank
LinkTexts == {<<>>, <<" ">>, <<"u">>, <<"v">>, <<" ", "u">>}

\* a blank downside, a plain one and one that strip() shortens
DownTexts == {<<" ">>, <<"x">>, <<"y", " ">>}

ListRow(text, t, link) ==
    [Bullet |-> text, High |-> t = "H", Med |-> t = "M", None |-> FALSE, Link |-> link]

\* n HIGH rows with the texts a, aa, aaa, ...
Numbered(n) == [i \in 1..n |-> ListRow(Uniform("a", i), "H", <<>>)]

SureRows == {ListRow(<<"s">>, t, l) : t \in {"H", "M"}, l \in LinkTexts}

DownRows == {ListRow(d, "M", <<>>) : d \in DownTexts}

\* the rows beside the SURE editor: with the SURE rows they give a kept total
\* of 8 to 10 (SURE cap 1), of 10 to 12 (cap 1 or 2), and of 16 or more (cap 3)
Fillers ==
    {[what |-> 10, how |-> 4, cydi |-> 2],
     [what |-> 12, how |-> 6, cydi |-> 3],
     [what |-> 16, how |-> 9, cydi |-> 6]}

ListForm(filler, sure, down) ==
    [rows |-> [e \in Editors |->
                 CASE e = "WHAT" -> Numbered(filler.what)
                   [] e = "HOW"  -> Numbered(filler.how)
                   [] e = "SURE" -> sure
                   [] e = "CYDI" -> Numbered(filler.cydi)
                   [] OTHER      -> down],
     hook |-> DEFAULT_HOOK, but_funnel |-> DEFAULT_BUT_FUNNEL,
     assets |-> [mission |-> PLACEHOLDER, team |-> PLACEHOLDER]]

\* a downsides editor of a blank row and four rows with a text
LongDown ==
    <<ListRow(<<"x">>, "M", <<>>), ListRow(<<" ">>, "M", <<>>), ListRow(<<"y", " ">>, "M", <<>>),
      ListRow(<<"x">>, "M", <<>>), ListRow(<<"y">>, "M", <<>>)>>

ListForms ==
    {ListForm(f, sure, LongDown) :
        f \in Fillers, sure \in SeqsUpTo(SureRows, MaxSure)}
    \cup
    {ListForm([what |-> 1, how |-> 0, cydi |-> 0], <<>>, down) :
        down \in SeqsUpTo(DownRows, MaxDown)}

InitLists ==
    /\ form \in ListForms
    /\ deck = DeckIdle
    /\ alloc = AllocIdle
    /\ wrap = WrapIdle
    /\ place = PlaceIdle

NextLists == BuildDeck

SpecLists == InitLists /\ [][NextLists]_vars

(***************************************************************************)
(* What the claims speak of, read off a built deck                         *)
(***************************************************************************)
\* the pool's entries of category c, in pool order
OfCat(pool, c) == SelectSeq(pool, LAMBDA b : b.category = c)

\* the pool's entries of category c with priority prio, in pool order
OfTier(pool, c, prio) == SelectSeq(pool, LAMBDA b : b.category = c /\ b.priority = prio)

\* entry x occurs in the sequence lst
Occurs(x, lst) == \E i \in 1..Len(lst) : lst[i] = x

\* the idx values of lst grow strictly
IdxAscending(lst) == \A i, j \in 1..Len(lst) : i < j => lst[i].idx < lst[j].idx

(***************************************************************************)
(* C2: after a build, the number of entries selected for a category is     *)
(* min(cap, number of pool entries of the category): a category short of   *)
(* entries is under-filled, no selection exceeds its own cap, and the      *)
(* total selected is at most kept_total.                                   *)
(***************************************************************************)
C2_SelectionFillsToCap ==
    deck.built =>
        /\ \A c \in Cats :
              /\ Len(deck.selected[c]) = Min(deck.targets[c], Len(OfCat(deck.pool, c)))
              /\ Len(deck.selected[c]) <= deck.targets[c]
        /\ SumOver([c \in Cats |-> Len(deck.selected[c])], Cats) <= deck.kept_total

\* one category has fewer entries than its cap while another has more than its own
C2_Witness ==
    /\ deck.built
    /\ \E c, d \in Cats :
          /\ Len(OfCat(deck.pool, c)) < deck.targets[c]
          /\ Len(OfCat(deck.pool, d)) > deck.targets[d]
          /\ deck.targets[d] > 0
          /\ Len(deck.selected[d]) = deck.targets[d]

(***************************************************************************)
(* C3: every category's selection is a prefix of its HIGH entries followed *)
(* by a prefix of its MEDIUM entries, each tier in entry order; a MEDIUM   *)
(* entry is selected only if every HIGH entry of the category is.          *)
(***************************************************************************)
C3_HighPrefixThenMediumPrefix ==
    deck.built =>
        \A c \in Cats :
            LET H == OfTier(deck.pool, c, 5)
                M == OfTier(deck.pool, c, 3)
            IN  /\ IdxAscending(H)
                /\ IdxAscending(M)
                /\ \E h \in 0..Len(H) : \E m \in 0..Len(M) :
                      /\ deck.selected[c] = Take(H, h) \o Take(M, m)
                      /\ m > 0 => h = Len(H)

\* a selection of a HIGH entry followed by a MEDIUM entry that was entered before
\* it, with a later MEDIUM entry left out
C3_Witness ==
    /\ deck.built
    /\ \E c \in Cats :
          LET sel == deck.selected[c]
          IN  /\ Len(sel) >= 2
              /\ sel[1].priority = 5
              /\ sel[Len(sel)].priority = 3
              /\ sel[Len(sel)].idx < sel[1].idx
              /\ \E i \in 1..Len(deck.pool) :
                    /\ deck.pool[i].category = c
                    /\ deck.pool[i].priority = 3
                    /\ ~Occurs(deck.pool[i], sel)

(***************************************************************************)
(* C7: the scenario of a pool of 10 WHAT entries (6 HIGH, 4 MEDIUM),       *)
(* 6 HOW, 4 SURE and 2 CYDI entries.                                       *)
(***************************************************************************)
Scenario ==
    /\ deck.built
    /\ Len(OfTier(deck.pool, "WHAT", 5)) = 6
    /\ Len(OfTier(deck.pool, "WHAT", 3)) = 4
    /\ Len(OfCat(deck.pool, "HOW")) = 6
    /\ Len(OfCat(deck.pool, "SURE")) = 4
    /\ Len(OfCat(deck.pool, "CYDI")) = 2
    /\ Len(deck.pool) = 22

\* C7 as stated: in the scenario kept_total is 11, the caps are WHAT 6, HOW 3,
\* SURE 2, CYDI 1, and the WHAT selection is all six HIGH entries and no MEDIUM one
C7_ScenarioAsStated ==
    Scenario =>
        /\ deck.kept_total = 11
        /\ deck.targets = [c \in Cats |->
              CASE c = "WHAT" -> 6 [] c = "HOW" -> 3 [] c = "SURE" -> 2 [] c = "CYDI" -> 1]
        /\ deck.selected["WHAT"] = OfTier(deck.pool, "WHAT", 5)

\* C7 amended: in the scenario kept_total is 11, the caps are WHAT 5, HOW 3,
\* SURE 2, CYDI 1 (they sum to 11), and the WHAT selection is the first five of
\* the six HIGH entries and no MEDIUM one
C7_ScenarioCaps ==
    Scenario =>
        /\ deck.kept_total = 11
        /\ deck.targets = [c \in Cats |->
              CASE c = "WHAT" -> 5 [] c = "HOW" -> 3 [] c = "SURE" -> 2 [] c = "CYDI" -> 1]
        /\ deck.selected["WHAT"] = Take(OfTier(deck.pool, "WHAT", 5), 5)
        /\ \A i \in 1..Len(deck.selected["WHAT"]) : deck.selected["WHAT"][i].priority = 5

\* the scenario, built, with a MEDIUM row entered first in the WHAT editor
C7_Witness ==
    /\ Scenario
    /\ form.rows["WHAT"][1].Med
    /\ Len(deck.selected["WHAT"]) = 5

(***************************************************************************)
(* C8: when no entry survives the filter, the build still ends: kept_total *)
(* is 1, the caps sum to at most 1, every selection and every category's   *)
(* slide list is empty, and the downsides list is produced.                *)
(***************************************************************************)
C8_EmptyPoolBuilds ==
    deck.built /\ deck.pool = <<>> =>
        /\ deck.kept_total = 1
        /\ SumOver(deck.targets, Cats) <= 1
        /\ \A c \in Cats : deck.selected[c] = <<>>
        /\ deck.slides.what_top3 = <<>>
        /\ deck.slides.what_rest = <<>>
        /\ deck.slides.how = <<>>
        /\ deck.slides.sure_texts = <<>>
        /\ deck.slides.sure_links = <<>>
        /\ deck.slides.cydi = <<>>
        /\ Len(deck.slides.downsides) \in 1..3
        /\ form.rows["DOWNSIDES"] = <<>> => deck.slides.downsides = <<FALLBACK_DOWNSIDE>>

\* a build of a form whose only category row has a text and no priority, and
\* whose downsides editor was emptied
C8_Witness ==
    /\ deck.built
    /\ deck.pool = <<>>
    /\ \E c \in Cats : \E i \in 1..Len(form.rows[c]) :
          Strip(form.rows[c][i].Bullet) # <<>>
    /\ deck.slides.downsides = <<FALLBACK_DOWNSIDE>>

\* the priorities the rows of an editor should contribute to the pool, in order
ExpectedPriorities(rows) ==
    LET kept == SelectSeq(rows, LAMBDA r : Strip(r.Bullet) # <<>> /\ (r.High \/ r.Med))
    IN  [i \in 1..Len(kept) |-> IF kept[i].High THEN 5 ELSE 3]

(***************************************************************************)
(* C9: each row gets one priority, HIGH (5) over MEDIUM (3) over none (0), *)
(* whatever check boxes are set; rows with blank text or priority 0 are    *)
(* dropped, so no pool or selected entry has empty text or priority 0, and *)
(* every selected entry is a pool entry of its category, selected once.    *)
(***************************************************************************)
C9_RowsNormalizedAndFiltered ==
    deck.built =>
        /\ \A c \in Cats :
              Field(OfCat(deck.pool, c), "priority") = ExpectedPriorities(form.rows[c])
        /\ \A i \in 1..Len(deck.pool) :
              /\ deck.pool[i].text # <<>>
              /\ deck.pool[i].text = Strip(deck.pool[i].text)
              /\ deck.pool[i].priority \in {3, 5}
        /\ \A c \in Cats :
              LET sel == deck.selected[c]
              IN  /\ \A i \in 1..Len(sel) :
                        /\ Occurs(sel[i], deck.pool)
                        /\ sel[i].category = c
                        /\ sel[i].text # <<>>
                        /\ sel[i].priority # 0
                  /\ \A i, j \in 1..Len(sel) : i # j => sel[i].idx # sel[j].idx

\* a row with all three boxes ticked is selected as HIGH, ahead of an earlier
\* MEDIUM row of the same editor
C9_Witness ==
    /\ deck.built
    /\ \E c \in Cats :
          /\ Len(form.rows[c]) = 2
          /\ form.rows[c][1].Med /\ ~form.rows[c][1].High
          /\ form.rows[c][2].High /\ form.rows[c][2].Med /\ form.rows[c][2].None
          /\ Len(deck.selected[c]) = 1
          /\ deck.selected[c][1].priority = 5
          /\ deck.selected[c][1].idx = 1

\* the clamped start top of a block of height content_h in the content region
PlacementLaw(content_h) ==
    LET avail == CONTENT_BOTTOM - CONTENT_TOP
    IN  Max(CONTENT_TOP,
            CONTENT_TOP + Max(0, (avail - content_h) \div 2) - (20 * avail) \div 100)

(***************************************************************************)
(* C10: every vertical placement of build_ppt follows                      *)
(* startTop = max(top, top + max(0, (avail - h)/2) - 0.20*avail) for the   *)
(* region 2.0 to 6.5, so no block or image starts above 2.0.               *)
(***************************************************************************)
C10_EveryPlacementFollowsLaw ==
    deck.built =>
        \A k \in DOMAIN deck.boxes :
            /\ deck.boxes[k].top = Inches(PlacementLaw(deck.boxes[k].content_h))
            /\ deck.boxes[k].top >= Inches(CONTENT_TOP)

\* C10 for the text blocks alone: every block placed by one of the two helpers
\* follows the clamped law and starts at or below 2.0
C10_HelperPlacementsFollowLaw ==
    deck.built =>
        \A k \in {"what_top3", "hook", "how", "downsides", "sure_texts", "cydi", "but_funnel"} :
            /\ deck.boxes[k].top = Inches(PlacementLaw(deck.boxes[k].content_h))
            /\ deck.boxes[k].top >= Inches(CONTENT_TOP)

\* the rows of an editor that have a text, in row order
RowsWithText(rows) == SelectSeq(rows, LAMBDA r : Strip(r.Bullet) # <<>>)

\* the first position of x in the sequence q, 0 if there is none
FirstAt(q, x) ==
    IF \E i \in 1..Len(q) : q[i] = x
    THEN CHOOSE i \in 1..Len(q) : q[i] = x /\ \A j \in 1..(i - 1) : q[j] # x
    ELSE 0

(***************************************************************************)
(* C11: in a built deck what_top3 is the first min(3, n) texts of the WHAT *)
(* selection and what_rest the remaining ones, together the whole          *)
(* selection in order; sure_links holds every non-empty (trimmed) link of  *)
(* the SURE selection exactly once, in the order the selection first shows *)
(* it, and nothing else; downsides has 1 to 3 entries: the first three     *)
(* trimmed non-blank downside texts, or the fallback alone when none.      *)
(***************************************************************************)
C11_DerivedLists ==
    deck.built =>
        LET what    == Field(deck.selected["WHAT"], "text")
            n       == Len(what)
            sure    == deck.selected["SURE"]
            sel_lnk == Field(sure, "link")
            links   == deck.slides.sure_links
            s_rows  == RowsWithText(form.rows["SURE"])
            d_rows  == RowsWithText(form.rows["DOWNSIDES"])
            d_texts == [i \in 1..Len(d_rows) |-> Strip(d_rows[i].Bullet)]
            down    == deck.slides.downsides
        IN  /\ deck.slides.what_top3 = SubSeq(what, 1, Min(3, n))
            /\ deck.slides.what_rest = SubSeq(what, Min(3, n) + 1, n)
            /\ deck.slides.what_top3 \o deck.slides.what_rest = what
            /\ \A i \in 1..Len(sure) : sure[i].link = Strip(s_rows[sure[i].idx + 1].Link)
            /\ \A i \in 1..Len(sure) : sel_lnk[i] # <<>> => FirstAt(links, sel_lnk[i]) > 0
            /\ \A j \in 1..Len(links) : links[j] # <<>> /\ FirstAt(sel_lnk, links[j]) > 0
            /\ \A j, k \in 1..Len(links) :
                  j < k => FirstAt(sel_lnk, links[j]) < FirstAt(sel_lnk, links[k])
            /\ Len(down) \in 1..3
            /\ IF d_texts = <<>>
               THEN down = <<FALLBACK_DOWNSIDE>>
               ELSE down = SubSeq(d_texts, 1, Min(3, Len(d_texts)))

\* three WHAT texts beyond the top three; three SURE rows of which the two HIGH
\* ones are selected with the same link once trimmed, listed once, and the
\* MEDIUM one, first in the editor, is left out with its own link; four
\* downsides with a text, of which three are shown
C11_Witness ==
    /\ deck.built
    /\ Len(deck.slides.what_top3) = 3
    /\ Len(deck.slides.what_rest) = 3
    /\ Len(form.rows["SURE"]) = 3
    /\ form.rows["SURE"][1].Med /\ form.rows["SURE"][1].Link = <<"v">>
    /\ form.rows["SURE"][2].High /\ form.rows["SURE"][2].Link = <<" ", "u">>
    /\ form.rows["SURE"][3].High /\ form.rows["SURE"][3].Link = <<"u">>
    /\ Len(deck.selected["SURE"]) = 2
    /\ deck.slides.sure_links = << <<"u">> >>
    /\ Len(RowsWithText(form.rows["DOWNSIDES"])) = 4
    /\ deck.slides.downsides = << <<"x">>, <<"y">>, <<"x">> >>

\* the fallback downside is shown when every downsides row is blank
C11_WitnessFallback ==
    /\ deck.built
    /\ Len(form.rows["DOWNSIDES"]) = 2
    /\ RowsWithText(form.rows["DOWNSIDES"]) = <<>>
    /\ deck.slides.downsides = <<FALLBACK_DOWNSIDE>>

\* n / 2 rounded to the nearest integer, a half going to the even neighbour
HalfToEven(n) ==
    IF n % 2 = 0 THEN n \div 2
    ELSE IF ((n - 1) \div 2) % 2 = 0 THEN (n - 1) \div 2 ELSE (n + 1) \div 2

(***************************************************************************)
(* C12: a build over a pool of n bullets keeps max(1, r) of them, r being  *)
(* n / 2 rounded half-to-even (n = 1 keeps 1, n = 3 keeps 2, n = 5 keeps   *)
(* 2, n = 7 keeps 4); so the kept total is at least 1, at most n when      *)
(* n >= 1, and the selections of all categories together never hold more   *)
(* bullets than the kept total.                                            *)
(***************************************************************************)
C12_KeptTotalHalfEven ==
    deck.built =>
        LET n == Len(deck.pool)
            k == deck.kept_total
        IN  /\ k = Max(1, HalfToEven(n))
            /\ n = 1 => k = 1
            /\ n = 3 => k = 2
            /\ n = 5 => k = 2
            /\ n = 7 => k = 4
            /\ 1 <= k
            /\ n >= 1 => k <= n
            /\ SumOver([c \in Cats |-> Len(deck.selected[c])], Cats) <= k

\* a pool of five: the half 2.5 goes down to the even 2, and two bullets are selected
C12_Witness ==
    /\ deck.built
    /\ Len(deck.pool) = 5
    /\ deck.kept_total = 2
    /\ SumOver([c \in Cats |-> Len(deck.selected[c])], Cats) = 2

=============================================================================
